---------------------------- MODULE Spec2Model ----------------------------
(***************************************************************************)
(* Model of SkillsForge's skill loading pipeline: skill_loader.py          *)
(* (Skill, SkillLoader), skill_tool.py (GetSkillTool and the deepagents    *)
(* get_skill closure) and skill_middleware.py (SkillsForgeMiddleware).     *)
(*                                                                         *)
(* Text is a sequence of atoms.  An atom is a string that the three        *)
(* regular expressions of _process_skill_paths treat as a unit: a literal  *)
(* word of a pattern ("python", "see", "scripts"), a word of the class     *)
(* [a-zA-Z0-9_-]+, or a single character that one of the character classes *)
(* singles out (" ", "'", "/", ".", "[", "]", "(", ")").  The text an atom *)
(* sequence stands for is the concatenation of its atoms.                  *)
(***************************************************************************)
EXTENDS Integers, Sequences, FiniteSets, TLC

\* ------------------------------------------------------------------ atoms

\* the atom for the backtick, U+0060, which a TLA+ string cannot hold
Backtick == "'"

\* \s of the patterns
Space == {" "}

\* the directory alternatives of pattern_dirs: (?:scripts|examples|templates|reference)
ConvDirs == {"scripts", "examples", "templates", "reference"}

\* atoms made only of [a-zA-Z0-9_-]
WordAtoms ==
    ConvDirs \cup {"python", "see", "Load", "run", "guide", "nope", "md", "py",
                   "use", "read_file", "to", "access", "skills", "r",
                   "a", "b", "c", "d", "e"}

\* the verbs of pattern_docs, (see|read|refer to|check), matched with re.IGNORECASE
DocVerbs == {"see", "See", "read", "Read", "check", "Check"}

\* the extensions of pattern_docs: (?:md|txt|json|yaml)
DocExts == {"md", "txt", "json", "yaml"}

\* the suffix class of pattern_docs: [.,;\s]
DocSuffix == {".", ",", ";"} \cup Space

\* the lead verbs of pattern_markdown, (Read|See|Check|Refer to|Load|View), re.IGNORECASE
LinkVerbs == {"Read", "read", "See", "see", "Check", "check", "Load", "load", "View", "view"}

\* the extensions of pattern_markdown: (?:md|txt|json|yaml|js|py|html)
LinkExts == {"md", "txt", "json", "yaml", "js", "py", "html"}

\* the text both replace_doc_path and replace_markdown_link append:
\* " (use read_file to access)"
Hint == <<" ", "(", "use", " ", "read_file", " ", "to", " ", "access", ")">>

\* s[i], or "" (no atom) outside the text
At(s, i) == IF i >= 1 /\ i <= Len(s) THEN s[i] ELSE ""

\* s[i..j-1]
Slice(s, i, j) == SubSeq(s, i, j - 1)

\* the end (exclusive) of the longest run of atoms of class cls that starts at i:
\* a greedy X+ or X* of the regular expressions
RunIn(s, i, cls) ==
    LET ks == {k \in i..(Len(s) + 1) : At(s, k) \notin cls}
    IN  CHOOSE k \in ks : \A m \in ks : k <= m

\* the same for a negated class [^...]: the run ends at the first atom of stop
RunNot(s, i, stop) ==
    LET ks == {k \in i..(Len(s) + 1) : At(s, k) \in (stop \cup {""})}
    IN  CHOOSE k \in ks : \A m \in ks : k <= m

\* ------------------------------------------------------------------ paths

\* A path is pathlib's PurePosixPath: whether it is anchored at "/", and its
\* parts, each part a sequence of atoms.

RECURSIVE SplitParts(_)
\* the "/"-separated components of a string, empty ones included
SplitParts(s) ==
    LET k == RunNot(s, 1, {"/"})
    IN  IF k > Len(s) THEN <<s>>
        ELSE <<Slice(s, 1, k)>> \o SplitParts(SubSeq(s, k + 1, Len(s)))

\* Path(str): repeated and trailing slashes and "." components are dropped
Path(s) ==
    [abs   |-> At(s, 1) = "/",
     parts |-> SelectSeq(SplitParts(s), LAMBDA p : p # <<>> /\ p # <<".">>)]

\* dir / str: an absolute right operand replaces the left one
Join(dir, s) ==
    LET r == Path(s)
    IN  IF r.abs THEN r ELSE [abs |-> dir.abs, parts |-> dir.parts \o r.parts]

\* path.parent
Parent(p) ==
    [abs |-> p.abs,
     parts |-> IF p.parts = <<>> THEN <<>> ELSE SubSeq(p.parts, 1, Len(p.parts) - 1)]

RECURSIVE JoinParts(_)
JoinParts(parts) ==
    IF parts = <<>> THEN <<>>
    ELSE IF Len(parts) = 1 THEN parts[1]
    ELSE parts[1] \o <<"/">> \o JoinParts(Tail(parts))

\* str(path)
Str(p) ==
    IF p.abs THEN <<"/">> \o JoinParts(p.parts)
    ELSE IF p.parts = <<>> THEN <<".">>
    ELSE JoinParts(p.parts)


\* ------------------------------------------------------------- file system

\* the names of the directories below a skills root that hold a SKILL.md
DirNames == <<"a", "b", "c", "d", "e">>

\* the working directory of the process: /r
Cwd == << <<"r">> >>

\* the files every skill directory ships beside its SKILL.md:
\* guide.md, scripts/run.py and examples/guide.md
Resources ==
    { << <<"guide", ".", "md">> >>,
      << <<"scripts">>, <<"run", ".", "py">> >>,
      << <<"examples">>, <<"guide", ".", "md">> >> }

\* where a SKILL.md can lie below a skills root: in the root itself or in one
\* of its directories (rglob finds both)
Locations == {<<>>} \cup {<< <<DirNames[i]>> >> : i \in 1..Len(DirNames)}

\* the skills roots on disk: /r/skills and /r/examples
Roots == {<<"skills">>, <<"examples">>}

\* every file on disk, as the parts of its absolute path
Files ==
    {Cwd \o <<root>> \o loc \o res : root \in Roots, loc \in Locations, res \in Resources}

\* every directory on disk: the proper prefixes of the files
Directories == UNION {{SubSeq(f, 1, k) : k \in 0..(Len(f) - 1)} : f \in Files}

RECURSIVE Walk(_, _)
\* the kernel's path resolution from directory cur: ".." steps up, a name steps
\* into an existing directory, and only the last name may be a file
Walk(cur, parts) ==
    IF parts = <<>> THEN [ok |-> TRUE, at |-> cur]
    ELSE IF Head(parts) = <<".", ".">>
         THEN Walk(IF cur = <<>> THEN <<>> ELSE SubSeq(cur, 1, Len(cur) - 1), Tail(parts))
    ELSE LET nxt == Append(cur, Head(parts))
         IN  IF nxt \in Directories THEN Walk(nxt, Tail(parts))
             ELSE [ok |-> nxt \in Files /\ Tail(parts) = <<>>, at |-> nxt]

Resolve(p) == Walk(IF p.abs THEN <<>> ELSE Cwd, p.parts)

\* path.exists(): a relative path is resolved against the working directory
Exists(p) == Resolve(p).ok

\* ------------------------------------------------- the Reference Rewriter

\* A match of a pattern at position i of text s: whether there is one, where it
\* ends (exclusive), and the groups the replacement reads.
NoMatch == [ok |-> FALSE, end |-> 0, prefix |-> <<>>, path |-> <<>>, text |-> <<>>, suffix |-> <<>>]

\* pattern_dirs = (python\s+|`)((?:scripts|examples|templates|reference)/[^\s`\)]+)
pattern_dirs(s, i) ==
    LET p == IF At(s, i) = Backtick THEN i + 1
             ELSE IF At(s, i) = "python" /\ At(s, i + 1) \in Space
                  THEN RunIn(s, i + 1, Space)
             ELSE 0
        e == RunNot(s, p + 2, Space \cup {Backtick, ")"})
    IN  IF p # 0 /\ At(s, p) \in ConvDirs /\ At(s, p + 1) = "/" /\ e > p + 2
        THEN [ok |-> TRUE, end |-> e, prefix |-> Slice(s, i, p), path |-> Slice(s, p, e),
              text |-> <<>>, suffix |-> <<>>]
        ELSE NoMatch

\* pattern_docs = (see|read|refer to|check)\s+([a-zA-Z0-9_-]+\.(?:md|txt|json|yaml))([.,;\s])
pattern_docs(s, i) ==
    LET p == RunIn(s, i + 1, Space)
        w == RunIn(s, p, WordAtoms)
    IN  IF At(s, i) \in DocVerbs /\ p > i + 1 /\ w > p /\ At(s, w) = "."
           /\ At(s, w + 1) \in DocExts /\ At(s, w + 2) \in DocSuffix
        THEN [ok |-> TRUE, end |-> w + 3, prefix |-> <<s[i]>>, path |-> Slice(s, p, w + 2),
              text |-> <<>>, suffix |-> <<s[w + 2]>>]
        ELSE NoMatch

\* \[(`?[^`\]]+`?)\]\(((?:\./)?[^)]+\.(?:md|txt|json|yaml|js|py|html))\) at position b,
\* after the lead verb pfx
LinkAt(s, b, pfx) ==
    LET t  == IF At(s, b + 1) = Backtick THEN b + 2 ELSE b + 1
        r  == RunNot(s, t, {Backtick, "]"})
        r2 == IF At(s, r) = Backtick THEN r + 1 ELSE r
        p  == r2 + 2
        e  == RunNot(s, p, {")"})
    IN  IF At(s, b) = "[" /\ r > t /\ At(s, r2) = "]" /\ At(s, r2 + 1) = "("
           /\ At(s, e) = ")" /\ e - 2 > p /\ At(s, e - 2) = "." /\ At(s, e - 1) \in LinkExts
        THEN [ok |-> TRUE, end |-> e + 1, prefix |-> pfx, path |-> Slice(s, p, e),
              text |-> Slice(s, b + 1, r2), suffix |-> <<>>]
        ELSE NoMatch

\* pattern_markdown = (?:(Read|See|Check|Refer to|Load|View)\s+)? followed by the link
pattern_markdown(s, i) ==
    LET p == RunIn(s, i + 1, Space)
    IN  IF At(s, i) \in LinkVerbs /\ p > i + 1
        THEN LinkAt(s, p, <<s[i]>>)
        ELSE LinkAt(s, i, <<>>)

\* replace_dir_path as it would be without the check of abs_path.exists()
replace_dir_path_unchecked(s, i, m, skill_dir) ==
    m.prefix \o Str(Join(skill_dir, m.path))

\* replace_dir_path: the prefix and the joined path when it exists, else the match
replace_dir_path(s, i, m, skill_dir) ==
    LET abs_path == Join(skill_dir, m.path)
    IN  IF Exists(abs_path) THEN m.prefix \o Str(abs_path)
        ELSE Slice(s, i, m.end)

\* replace_doc_path: the verb, the joined path between backticks, the hint and
\* the suffix when the path exists, else the match
replace_doc_path(s, i, m, skill_dir) ==
    LET abs_path == Join(skill_dir, m.path)
    IN  IF Exists(abs_path) THEN m.prefix \o <<Backtick>> \o Str(abs_path) \o <<Backtick>> \o Hint \o m.suffix
        ELSE Slice(s, i, m.end)

\* clean_path = filepath[2:] if filepath.startswith("./") else filepath
clean_path(filepath) ==
    IF At(filepath, 1) = "." /\ At(filepath, 2) = "/"
    THEN SubSeq(filepath, 3, Len(filepath)) ELSE filepath

\* replace_markdown_link: the lead verb, the link text and the joined path
\* between backticks with the hint when the path exists, else the match
replace_markdown_link(s, i, m, skill_dir) ==
    LET abs_path == Join(skill_dir, clean_path(m.path))
    IN  IF Exists(abs_path)
        THEN m.prefix \o <<"[">> \o m.text \o <<"]", "(", Backtick>> \o Str(abs_path) \o <<Backtick, ")">> \o Hint
        ELSE Slice(s, i, m.end)

\* the match of pattern k (1: pattern_dirs, 2: pattern_docs, 3: pattern_markdown) at i
MatchAt(k, s, i) ==
    IF k = 1 THEN pattern_dirs(s, i)
    ELSE IF k = 2 THEN pattern_docs(s, i)
    ELSE pattern_markdown(s, i)

\* the path the callback of pattern k resolves for match m
AbsPath(k, m, skill_dir) ==
    Join(skill_dir, IF k = 3 THEN clean_path(m.path) ELSE m.path)

\* the callback of pattern k
Replace(k, s, i, m, skill_dir) ==
    IF k = 1 THEN replace_dir_path(s, i, m, skill_dir)
    ELSE IF k = 2 THEN replace_doc_path(s, i, m, skill_dir)
    ELSE replace_markdown_link(s, i, m, skill_dir)

RECURSIVE Sub(_, _, _, _)
\* re.sub(pattern k, callback, s) from position i on: the leftmost match is
\* replaced and the scan goes on behind it
Sub(k, s, i, skill_dir) ==
    IF i > Len(s) THEN <<>>
    ELSE LET m == MatchAt(k, s, i)
         IN  IF m.ok THEN Replace(k, s, i, m, skill_dir) \o Sub(k, s, m.end, skill_dir)
             ELSE <<s[i]>> \o Sub(k, s, i + 1, skill_dir)

\* _process_skill_paths: the three substitutions, each over the output of the one before
process_skill_paths(content, skill_dir) ==
    Sub(3, Sub(2, Sub(1, content, 1, skill_dir), 1, skill_dir), 1, skill_dir)

\* ------------------------------------------------------------- documents

\* Python's None
None == "<None>"

\* A SKILL.md on disk: whether read_text succeeds, whether the text opens with
\* the "---" line and has the closing "---" line, the value yaml.safe_load
\* gives for the header text, and the text after the closing line.
\* A header is [t, has, name, description, license, allowed_tools, metadata]:
\* t is the kind of the loaded value ("error" for a yaml.YAMLError), has the
\* strings k for which `k in frontmatter` is true, and the other fields the
\* values of a mapping's keys (None for a key with no value).
Header(t, has, name, description, license, allowed_tools, metadata) ==
    [t |-> t, has |-> has, name |-> name, description |-> description,
     license |-> license, allowed_tools |-> allowed_tools, metadata |-> metadata]

Document(readable, open, close, header, body) ==
    [readable |-> readable, open |-> open, close |-> close, header |-> header,
     body |-> body]

\* a header that is a mapping with the keys has
Mapping(has, name, description, license, allowed_tools, metadata) ==
    Header("map", has, name, description, license, allowed_tools, metadata)

NoHeader == Header("null", {}, None, None, None, None, None)

\* body texts: "python scripts/run.py", " see guide.md. " and "`scripts/nope.py`"
BodyRun == <<"python", " ", "scripts", "/", "run", ".", "py">>
BodyGuide == <<" ", "see", " ", "guide", ".", "md", ".", " ">>
BodyNope == <<Backtick, "scripts", "/", "nope", ".", "py", Backtick>>

Required == {"name", "description"}

\* the documents a skills root may hold
DocSet ==
    { \* read_text raises (unreadable, or not UTF-8)
      Document(FALSE, TRUE, TRUE, NoHeader, BodyRun),
      \* no closing "---" line
      Document(TRUE, TRUE, FALSE, NoHeader, BodyRun),
      \* the header is not YAML
      Document(TRUE, TRUE, TRUE, Header("error", {}, None, None, None, None, None), BodyRun),
      \* an empty header: safe_load gives None
      Document(TRUE, TRUE, TRUE, NoHeader, BodyRun),
      \* the header is the sequence [name, description]
      Document(TRUE, TRUE, TRUE, Header("list", Required, None, None, None, None, None), BodyRun),
      \* no description key
      Document(TRUE, TRUE, TRUE, Mapping({"name"}, "x", None, None, None, None), BodyRun),
      \* no name key
      Document(TRUE, TRUE, TRUE, Mapping({"description"}, None, "d1", None, None, None), BodyRun),
      \* name: with no value, and description: ""
      Document(TRUE, TRUE, TRUE, Mapping(Required, None, "", None, None, None), BodyNope),
      \* well-formed documents
      Document(TRUE, TRUE, TRUE, Mapping(Required, "x", "d1", None, None, None), BodyRun),
      Document(TRUE, TRUE, TRUE,
               Mapping(Required \cup {"license", "allowed-tools", "metadata"},
                       "x", "d2", "MIT", "tools", "meta"), BodyGuide),
      Document(TRUE, TRUE, TRUE, Mapping(Required, "y", "d1", None, None, None), BodyGuide) }

\* -------------------------------------------------------------- the loader

\* re.match(r"^---\n(.*?)\n---\n(.*)$", content, re.DOTALL)
frontmatter_match(doc) == doc.open /\ doc.close

\* str.strip()
strip(s) ==
    LET keep == {k \in 1..Len(s) : s[k] \notin Space}
    IN  IF keep = {} THEN <<>>
        ELSE SubSeq(s, CHOOSE k \in keep : \A m \in keep : k <= m,
                       CHOOSE k \in keep : \A m \in keep : k >= m)

\* `key in frontmatter`: a TypeError for None, membership for a mapping or a list
SupportsIn(fm) == fm.t \in {"map", "list", "str"}

\* frontmatter[key] and frontmatter.get(key): a TypeError or AttributeError
\* unless frontmatter is a mapping
Subscriptable(fm) == fm.t = "map"

NoSkill == [ok |-> FALSE, skill |-> None]

\* Skill(...), lines 96-104
Skill(fm, content, skill_path) ==
    [name |-> fm.name, description |-> fm.description, content |-> content,
     license |-> fm.license, allowed_tools |-> fm.allowed_tools,
     metadata |-> fm.metadata, skill_path |-> skill_path]

\* the check of the required fields, line 84
MissingRequired(fm) == "name" \notin fm.has \/ "description" \notin fm.has

\* load_skill: the Skill, or None (ok = FALSE) on every failure, the caught
\* exceptions included
load_skill(doc, skill_path) ==
    IF ~doc.readable THEN NoSkill                     \* read_text raises: line 108
    ELSE IF ~frontmatter_match(doc) THEN NoSkill      \* line 69
    ELSE IF doc.header.t = "error" THEN NoSkill       \* yaml.YAMLError: line 79
    ELSE IF ~SupportsIn(doc.header) THEN NoSkill      \* TypeError at line 84: line 108
    ELSE IF MissingRequired(doc.header) THEN NoSkill  \* line 84
    ELSE IF ~Subscriptable(doc.header) THEN NoSkill   \* TypeError at line 97: line 108
    ELSE [ok |-> TRUE,
          skill |-> Skill(doc.header,
                          process_skill_paths(strip(doc.body), Parent(skill_path)),
                          skill_path)]

\* loaded_skills is a Python dict: a sequence of (key, value) entries in the
\* order in which the keys were first inserted.
Keys(d) == [i \in 1..Len(d) |-> d[i].k]

HasKey(d, k) == \E i \in 1..Len(d) : d[i].k = k

\* d[k] = v as a list's append would do it: every assignment adds an entry
SetItemAppend(d, k, v) == Append(d, [k |-> k, v |-> v])

\* d[k] = v as d.setdefault(k, v) would do it: the first value of a key stays
SetItemKeepFirst(d, k, v) ==
    IF HasKey(d, k) THEN d ELSE Append(d, [k |-> k, v |-> v])

\* d[k] = v as `del d[k]; d[k] = v` would do it: an old key moves to the end
SetItemMoveToEnd(d, k, v) ==
    Append(SelectSeq(d, LAMBDA e : e.k # k), [k |-> k, v |-> v])

\* d[k] = v: a new key goes to the end, an old key keeps its place
SetItem(d, k, v) ==
    IF HasKey(d, k)
    THEN [i \in 1..Len(d) |-> IF d[i].k = k THEN [k |-> k, v |-> v] ELSE d[i]]
    ELSE Append(d, [k |-> k, v |-> v])

\* d.get(k)
Get(d, k) ==
    IF HasKey(d, k) THEN d[CHOOSE i \in 1..Len(d) : d[i].k = k].v ELSE None

\* a path rglob("SKILL.md") yields: skills_dir/<location>/SKILL.md
skill_file(dir, loc) ==
    [abs |-> dir.abs, parts |-> dir.parts \o loc \o << <<"SKILL", ".", "md">> >>]

\* the location of the i-th document rglob yields
Location(i) == << <<DirNames[i]>> >>

RECURSIVE discover_loop_abort(_, _, _, _, _)
\* the loop as it would run if a failed load ended it: the documents behind
\* the first one that fails are not loaded
discover_loop_abort(dir, ds, i, skills, index) ==
    IF i > Len(ds) THEN [skills |-> skills, index |-> index]
    ELSE LET r == load_skill(ds[i], skill_file(dir, Location(i)))
         IN  IF r.ok
             THEN discover_loop_abort(dir, ds, i + 1, Append(skills, r.skill),
                                      SetItem(index, r.skill.name, r.skill))
             ELSE [skills |-> skills, index |-> index]

RECURSIVE discover_loop(_, _, _, _, _)
\* the loop of discover_skills, lines 199-203, from the i-th document on
discover_loop(dir, ds, i, skills, index) ==
    IF i > Len(ds) THEN [skills |-> skills, index |-> index]
    ELSE LET r == load_skill(ds[i], skill_file(dir, Location(i)))
         IN  IF r.ok
             THEN discover_loop(dir, ds, i + 1, Append(skills, r.skill),
                                SetItem(index, r.skill.name, r.skill))
             ELSE discover_loop(dir, ds, i + 1, skills, index)

\* discover_skills: the returned list and the index it leaves
discover_skills(dir, ds, index) ==
    IF ~Exists(dir) THEN [skills |-> <<>>, index |-> index]
    ELSE discover_loop(dir, ds, 1, <<>>, index)

\* get_skill
get_skill(index, name) == Get(index, name)

\* list_skills
list_skills(index) == Keys(index)

\* how an f-string formats a value
Format(v) == IF v = None THEN "None" ELSE v

RECURSIVE join(_, _)
\* sep.join(parts), each part and the result a sequence of pieces of text
join(sep, parts) ==
    IF parts = <<>> THEN <<>>
    ELSE IF Len(parts) = 1 THEN parts[1]
    ELSE parts[1] \o <<sep>> \o join(sep, Tail(parts))

\* Skill.to_prompt
to_prompt(skill) ==
    <<"\n# Skill: ", Format(skill.name), "\n\n", Format(skill.description), "\n\n---\n\n">>
    \o skill.content \o <<"\n">>

\* the three lines every summary starts with, lines 239-241
Preamble ==
    << <<"## Available Skills\n">>,
       <<"You have access to specialized skills. Each skill provides expert guidance for specific tasks.\n">>,
       <<"Load a skill's full content using the appropriate skill tool when needed.\n">> >>

\* the line of one skill as it would be if it carried the body as well
metadata_line_with_content(skill) ==
    <<"- ", Backtick, Format(skill.name), Backtick, ": ", Format(skill.description), " ">>
    \o skill.content

\* the line of one skill, line 245
metadata_line(skill) ==
    <<"- ", Backtick, Format(skill.name), Backtick, ": ", Format(skill.description)>>

\* get_skills_metadata_prompt
get_skills_metadata_prompt(index) ==
    IF index = <<>> THEN <<>>
    ELSE join("\n", Preamble \o [i \in 1..Len(index) |-> metadata_line(index[i].v)])

\* SkillsForgeMiddleware._format_skills_list over self.skills, the list
\* discover_skills returned: one line for each of its skills
format_skills_list(skills, skills_dir) ==
    IF skills = <<>>
    THEN <<"(No skills available yet. You can create skills in ">> \o skills_dir \o <<")">>
    ELSE join("\n", [i \in 1..Len(skills) |->
                        <<"- **", Format(skills[i].name), "**: ", Format(skills[i].description)>>])

\* what a call gave: the operation, its argument, whether it raised, and the
\* value it returned (for a ToolResult its success flag and its content or error)
Result(op, arg, raised, success, value) ==
    [op |-> op, arg |-> arg, raised |-> raised, success |-> success, value |-> value]

\* str.join raises a TypeError on an item that is not a string
JoinRaises(names) == \E i \in 1..Len(names) : names[i] = None

\* the message of a failed lookup, skill_tool.py lines 49 and 83: the name asked
\* for and the names list_skills() gives, joined by ", "
not_found(skill_name, names) ==
    <<"Skill '", skill_name, "' does not exist. Available skills: ">>
    \o join(", ", [i \in 1..Len(names) |-> <<names[i]>>])

\* the lookup both tools share: `not skill` holds exactly when get_skill gave
\* None, as a Skill is always true
lookup(op, index, skill_name) ==
    IF ~HasKey(index, skill_name)
    THEN IF JoinRaises(list_skills(index))
         THEN Result(op, skill_name, TRUE, FALSE, <<>>)
         ELSE Result(op, skill_name, FALSE, FALSE, not_found(skill_name, list_skills(index)))
    ELSE Result(op, skill_name, FALSE, TRUE, to_prompt(get_skill(index, skill_name)))

\* GetSkillTool.execute
execute(index, skill_name) == lookup("execute", index, skill_name)

\* the get_skill closure of create_deepagent_skill_tools
deepagent_get_skill(index, skill_name) == lookup("deepagent_get_skill", index, skill_name)

\* ------------------------------------------------------ the state machine

\* the most documents below a skills root
MaxDocs == 3

\* the skills_dir arguments of the loaders: the default "./skills", and
\* "./missing", which is not on disk
SkillsDirArgs == { <<".", "/", "skills">>, <<".", "/", "missing">> }

\* the names the callers ask for
QueryNames == {"x", "zzz"}

VARIABLES
    skills_dir,     \* SkillLoader.skills_dir
    docs,           \* the SKILL.md files below skills_dir, in rglob's order
    loaded_skills,  \* SkillLoader.loaded_skills
    pc,             \* "Uninitialized" until discover_skills has returned, then "Ready"
    skills,         \* what discover_skills returned last (SkillsForgeMiddleware.skills)
    result,         \* what the last call gave
    content,        \* Reference Rewriter: the text to process
    skill_dir,      \* Reference Rewriter: the skill's directory
    passes,         \* Reference Rewriter: how often the text was processed
    previous,       \* Reference Rewriter: the text the last pass was given
    processed,      \* Reference Rewriter: the text the last pass returned
    written         \* Reference Rewriter: the paths the last pass wrote

vars == <<skills_dir, docs, loaded_skills, pc, skills, result,
          content, skill_dir, passes, previous, processed, written>>

loader_vars == <<skills_dir, docs, loaded_skills, pc, skills, result>>

rewriter_vars == <<content, skill_dir, passes, previous, processed, written>>

NoResult == Result("none", "", FALSE, FALSE, <<>>)

\* SkillLoader.__init__ over a skills root holding up to MaxDocs documents
Init ==
    /\ \E arg \in SkillsDirArgs : skills_dir = Path(arg)
    /\ docs \in UNION {[1..n -> DocSet] : n \in 0..(IF Exists(skills_dir) THEN MaxDocs ELSE 0)}
    /\ loaded_skills = <<>>
    /\ pc = "Uninitialized"
    /\ skills = <<>>
    /\ result = NoResult
    /\ content = <<>>
    /\ skill_dir = skills_dir
    /\ passes = 0
    /\ previous = <<>>
    /\ processed = <<>>
    /\ written = {}

\* Every caller constructs the loader and calls discover_skills once, before it
\* hands out a tool (skill_tool.py lines 70-73 and 112-115, skill_middleware.py
\* lines 97-101): the queries follow the one discovery.
Discover ==
    LET r == discover_skills(skills_dir, docs, loaded_skills)
    IN  /\ pc = "Uninitialized"
        /\ loaded_skills' = r.index
        /\ skills' = r.skills
        /\ pc' = "Ready"
        /\ result' = Result("discover_skills", "", FALSE, TRUE, r.skills)
        /\ UNCHANGED <<skills_dir, docs, rewriter_vars>>

\* get_skill as loaded_skills.pop(name, None) would do it: the lookup takes
\* the skill out of the index
GetSkillPop ==
    \E name \in QueryNames :
        /\ pc = "Ready"
        /\ result' = Result("get_skill", name, FALSE, HasKey(loaded_skills, name),
                            get_skill(loaded_skills, name))
        /\ loaded_skills' = SelectSeq(loaded_skills, LAMBDA e : e.k # name)
        /\ UNCHANGED <<skills_dir, docs, pc, skills, rewriter_vars>>

GetSkill ==
    \E name \in QueryNames :
        /\ pc = "Ready"
        /\ result' = Result("get_skill", name, FALSE, HasKey(loaded_skills, name),
                            get_skill(loaded_skills, name))
        /\ UNCHANGED <<skills_dir, docs, loaded_skills, pc, skills, rewriter_vars>>

ListSkills ==
    /\ pc = "Ready"
    /\ result' = Result("list_skills", "", FALSE, TRUE, list_skills(loaded_skills))
    /\ UNCHANGED <<skills_dir, docs, loaded_skills, pc, skills, rewriter_vars>>

GetSkillsMetadataPrompt ==
    /\ pc = "Ready"
    /\ result' = Result("get_skills_metadata_prompt", "", FALSE, TRUE,
                        get_skills_metadata_prompt(loaded_skills))
    /\ UNCHANGED <<skills_dir, docs, loaded_skills, pc, skills, rewriter_vars>>

Execute ==
    \E name \in QueryNames :
        /\ pc = "Ready"
        /\ result' = execute(loaded_skills, name)
        /\ UNCHANGED <<skills_dir, docs, loaded_skills, pc, skills, rewriter_vars>>

DeepagentGetSkill ==
    \E name \in QueryNames :
        /\ pc = "Ready"
        /\ result' = deepagent_get_skill(loaded_skills, name)
        /\ UNCHANGED <<skills_dir, docs, loaded_skills, pc, skills, rewriter_vars>>

Next ==
    \/ Discover
    \/ GetSkill
    \/ ListSkills
    \/ GetSkillsMetadataPrompt
    \/ Execute
    \/ DeepagentGetSkill

Spec == Init /\ [][Next]_vars

\* ------------------------------------------- the Reference Rewriter alone

\* the most fragments of a body text, and the most passes over it
MaxFrags == 2
MaxPasses == 2

\* the pieces body texts are made of: references of the three kinds, to paths
\* that exist and to paths that do not, and text around them
Fragments ==
    { <<"python", " ", "scripts", "/", "run", ".", "py">>,
      <<Backtick, "scripts", "/", "nope", ".", "py", Backtick>>,
      <<Backtick, "examples", "/", "guide", ".", "md", Backtick>>,
      <<"see", " ", "guide", ".", "md", ".">>,
      <<"see", " ", "nope", ".", "md", ",">>,
      <<"[", "guide", "]", "(", ".", "/", "guide", ".", "md", ")">>,
      <<"Load", " ", "[", Backtick, "run", Backtick, "]", "(", "scripts", "/", "run", ".", "py", ")">>,
      <<"[", "nope", "]", "(", "nope", ".", "md", ")">>,
      <<" ">>,
      <<"guide">>,
      <<")">> }

RECURSIVE Texts(_)
\* the texts of up to n fragments
Texts(n) ==
    IF n = 0 THEN {<<>>}
    ELSE Texts(n - 1) \cup {t \o f : t \in Texts(n - 1), f \in Fragments}

\* the skills_dir arguments of the rewriter's loaders: those above, the
\* absolute "/r/skills" and "./examples"
RewriterArgs ==
    SkillsDirArgs \cup { <<"/", "r", "/", "skills">>, <<".", "/", "examples">> }

\* the directories of the skills a loader can find: the parent of a SKILL.md
\* in a skills root that exists, or in a directory of it
SkillDirs ==
    {Parent(skill_file(Path(arg), loc)) :
        arg \in {a \in RewriterArgs : Exists(Path(a))}, loc \in {<<>>, Location(1)}}

RECURSIVE Written(_, _, _, _)
\* the paths the callback of pattern k writes into text s from position i on
Written(k, s, i, dir) ==
    IF i > Len(s) THEN {}
    ELSE LET m == MatchAt(k, s, i)
         IN  IF m.ok
             THEN (IF Exists(AbsPath(k, m, dir)) THEN {AbsPath(k, m, dir)} ELSE {})
                  \cup Written(k, s, m.end, dir)
             ELSE Written(k, s, i + 1, dir)

\* the paths one call of _process_skill_paths writes
written_paths(s, dir) ==
    Written(1, s, 1, dir)
    \cup Written(2, Sub(1, s, 1, dir), 1, dir)
    \cup Written(3, Sub(2, Sub(1, s, 1, dir), 1, dir), 1, dir)

InitRewriter ==
    /\ content \in Texts(MaxFrags)
    /\ skill_dir \in SkillDirs
    /\ passes = 0
    /\ previous = <<>>
    /\ processed = content
    /\ written = {}
    /\ skills_dir = skill_dir
    /\ docs = <<>>
    /\ loaded_skills = <<>>
    /\ pc = "Uninitialized"
    /\ skills = <<>>
    /\ result = NoResult

\* _process_skill_paths applied to the text, and then to its own output
Process ==
    /\ passes < MaxPasses
    /\ previous' = processed
    /\ processed' = process_skill_paths(processed, skill_dir)
    /\ written' = written_paths(processed, skill_dir)
    /\ passes' = passes + 1
    /\ UNCHANGED <<content, skill_dir, loader_vars>>

NextRewriter == Process

SpecRewriter == InitRewriter /\ [][NextRewriter]_vars

\* ----------------------------------------------- the claims on the loader

\* the path of the i-th document rglob yields
DocFile(i) == skill_file(skills_dir, Location(i))

\* what load_skill gives for each document, in rglob's order
Loads == [i \in 1..Len(docs) |-> load_skill(docs[i], DocFile(i))]

\* of the load results l: the documents that load
LoadedAt(l) == {i \in 1..Len(l) : l[i].ok}

\* the names the documents that load declare
LoadedNames(l) == {l[i].skill.name : i \in LoadedAt(l)}

\* the first and the last document that loads and declares name
FirstAt(l, name) ==
    CHOOSE j \in LoadedAt(l) :
        l[j].skill.name = name /\ \A k \in 1..(j - 1) : l[k].ok => l[k].skill.name # name

LastAt(l, name) ==
    CHOOSE j \in LoadedAt(l) :
        l[j].skill.name = name /\ \A k \in (j + 1)..Len(l) : l[k].ok => l[k].skill.name # name

\* the document the indexed skill of a name was loaded from
SourceAt(l, name) ==
    CHOOSE i \in LoadedAt(l) : l[i].skill.skill_path = get_skill(loaded_skills, name).skill_path

\* discover_skills has just returned
Discovered == pc = "Ready" /\ result.op = "discover_skills"

\* C1 as stated: after the one discover_skills() call on a new loader over N
\* documents, M of which fail to load, the returned sequence holds N-M skills
\* and list_skills() has length N-M.
C1_Original ==
    Discovered =>
        LET l == Loads
            N == Len(docs)
            M == Len(docs) - Cardinality(LoadedAt(l))
        IN  /\ Len(result.value) = N - M
            /\ Len(list_skills(loaded_skills)) = N - M

\* C1 as amended: the returned sequence holds N-M skills, and list_skills()
\* holds one name for each distinct name the N-M loaded documents declare:
\* N-M names when the names are pairwise distinct, fewer otherwise.
C1_Amended ==
    Discovered =>
        LET l == Loads
            N == Len(docs)
            M == Len(docs) - Cardinality(LoadedAt(l))
            names == list_skills(loaded_skills)
        IN  /\ Len(result.value) = N - M
            /\ Len(names) = Cardinality(LoadedNames(l))
            /\ Len(names) <= N - M
            /\ (Cardinality(LoadedNames(l)) = N - M => Len(names) = N - M)

\* a discovery over three documents, one that fails and two that declare one name
C1_Witness ==
    /\ Discovered
    /\ Len(docs) = 3
    /\ Cardinality(LoadedAt(Loads)) = 2
    /\ Len(result.value) = 2
    /\ Len(list_skills(loaded_skills)) = 1

\* C2: when two documents load and declare the same name x, then after the
\* discovery the index holds one entry for x, get_skill(x) is the Skill of the
\* later document in every field, and a get_skill(x) call returns it and does
\* not raise.
C2_LastWins ==
    (pc = "Ready" /\ result.op \in {"discover_skills", "get_skill"}) =>
        LET l == Loads
        IN  \A i \in LoadedAt(l) : \A j \in LoadedAt(l) :
                (i < j /\ l[i].skill.name = l[j].skill.name /\ LastAt(l, l[j].skill.name) = j) =>
                    /\ Cardinality({e \in 1..Len(loaded_skills) :
                                       loaded_skills[e].k = l[j].skill.name}) = 1
                    /\ get_skill(loaded_skills, l[j].skill.name) = l[j].skill
                    /\ get_skill(loaded_skills, l[j].skill.name) # l[i].skill
                    /\ (result.op = "get_skill" /\ result.arg = l[j].skill.name) =>
                           (~result.raised /\ result.value = l[j].skill)

\* get_skill("x") has returned after two documents declared x with different
\* descriptions, contents and licenses
C2_Witness ==
    /\ pc = "Ready"
    /\ result.op = "get_skill" /\ result.arg = "x"
    /\ LET l == Loads
       IN  \E i \in LoadedAt(l) : \E j \in LoadedAt(l) :
               /\ i < j /\ l[i].skill.name = "x" /\ l[j].skill.name = "x"
               /\ l[i].skill.description # l[j].skill.description
               /\ l[i].skill.content # l[j].skill.content
               /\ l[i].skill.license # l[j].skill.license

\* list_skills() holds every indexed name once
ListsEachNameOnce(l, names) ==
    /\ {names[p] : p \in 1..Len(names)} = LoadedNames(l)
    /\ \A p \in 1..Len(names) : \A q \in 1..Len(names) : names[p] = names[q] => p = q

\* C3 as stated: list_skills() holds every indexed name once, and name a comes
\* before name b whenever the document the indexed skill a was loaded from was
\* discovered before the one the indexed skill b was loaded from.
C3_Original ==
    (pc = "Ready" /\ result.op = "list_skills") =>
        LET l == Loads
            names == result.value
        IN  /\ ListsEachNameOnce(l, names)
            /\ \A p \in 1..Len(names) : \A q \in 1..Len(names) :
                   SourceAt(l, names[p]) < SourceAt(l, names[q]) => p < q

\* C3 as amended: list_skills() holds every indexed name once, and name a
\* comes before name b whenever the first loaded document that declares a was
\* discovered before the first loaded document that declares b.
C3_Amended ==
    (pc = "Ready" /\ result.op = "list_skills") =>
        LET l == Loads
            names == result.value
        IN  /\ ListsEachNameOnce(l, names)
            /\ \A p \in 1..Len(names) : \A q \in 1..Len(names) :
                   FirstAt(l, names[p]) < FirstAt(l, names[q]) => p < q

\* list_skills() has returned two names, the first of them declared again
\* by a document discovered after the one that declares the second
C3_Witness ==
    /\ pc = "Ready"
    /\ result.op = "list_skills" /\ Len(result.value) = 2
    /\ LET l == Loads
       IN  /\ FirstAt(l, result.value[1]) < FirstAt(l, result.value[2])
           /\ SourceAt(l, result.value[1]) > SourceAt(l, result.value[2])

\* a name or description a header can hold that is empty: "" or no value
Empty == {"", None}

\* C4: every Skill load_skill returns, and so every Skill in loaded_skills,
\* has a non-empty name and a non-empty description; a document whose header
\* holds the name or the description key with an empty value ("" or no value)
\* produces no Skill.
C4_NonEmpty ==
    pc = "Ready" =>
        /\ \A e \in 1..Len(loaded_skills) :
               /\ loaded_skills[e].v.name \notin Empty
               /\ loaded_skills[e].v.description \notin Empty
        /\ result.op = "discover_skills" =>
               LET l == Loads
               IN  \A i \in 1..Len(docs) :
                       /\ l[i].ok => (l[i].skill.name \notin Empty
                                      /\ l[i].skill.description \notin Empty)
                       /\ (/\ docs[i].header.t = "map"
                           /\ \/ ("name" \in docs[i].header.has /\ docs[i].header.name \in Empty)
                              \/ ("description" \in docs[i].header.has
                                  /\ docs[i].header.description \in Empty))
                          => ~l[i].ok

\* the failures C6 lists: an unreadable file, a missing header block, a YAML
\* syntax error, a header that is not a mapping, a missing name or description
Malformed(doc) ==
    \/ ~doc.readable
    \/ ~doc.open \/ ~doc.close
    \/ doc.header.t = "error"
    \/ doc.header.t # "map"
    \/ "name" \notin doc.header.has
    \/ "description" \notin doc.header.has

\* C6: a document that fails to load for one of the listed reasons makes
\* load_skill return a failure and no exception leaves discover_skills; the
\* document adds and changes no entry of loaded_skills; and every remaining
\* well-formed document is loaded, returned and indexed: the returned
\* sequence is the skills of the well-formed documents in their order, and
\* the index holds, for each name they declare, the skill of the last
\* well-formed document that declares it.
C6_FailuresNonFatal ==
    Discovered =>
        LET l == Loads
            good == {i \in 1..Len(docs) : ~Malformed(docs[i])}
        IN  /\ ~result.raised
            /\ \A i \in 1..Len(docs) : Malformed(docs[i]) => (~l[i].ok /\ l[i].skill = None)
            /\ \A i \in good : l[i].ok
            /\ Len(result.value) = Cardinality(good)
            /\ \A i \in good :
                   /\ result.value[Cardinality({j \in good : j <= i})] = l[i].skill
                   /\ HasKey(loaded_skills, l[i].skill.name)
            /\ \A e \in 1..Len(loaded_skills) :
                   \E i \in good :
                       /\ loaded_skills[e].k = l[i].skill.name
                       /\ loaded_skills[e].v = l[i].skill
                       /\ \A j \in good : j > i => l[j].skill.name # l[i].skill.name

\* a discovery over a document that fails, a well-formed one and another one
\* that fails for another reason: the index holds the well-formed one alone
C6_Witness ==
    /\ Discovered
    /\ Len(docs) = 3
    /\ Malformed(docs[1]) /\ ~Malformed(docs[2]) /\ Malformed(docs[3])
    /\ ~docs[1].readable /\ docs[3].readable /\ docs[3].header.t = "list"
    /\ Len(loaded_skills) = 1
    /\ loaded_skills[1].v = load_skill(docs[2], DocFile(2)).skill
    /\ skills = <<load_skill(docs[2], DocFile(2)).skill>>

\* C7: for every name, GetSkillTool.execute and the get_skill closure of
\* create_deepagent_skill_tools do not raise: for an indexed name they return
\* the skill's rendered name, description and body, for any other name a
\* not-found result whose message holds the names list_skills() returns.
C7_LookupNeverRaises ==
    (pc = "Ready" /\ result.op \in {"execute", "deepagent_get_skill"}) =>
        /\ ~result.raised
        /\ HasKey(loaded_skills, result.arg) =>
               /\ result.success
               /\ result.value = to_prompt(get_skill(loaded_skills, result.arg))
        /\ ~HasKey(loaded_skills, result.arg) =>
               /\ ~result.success
               /\ result.value = not_found(result.arg, list_skills(loaded_skills))

\* C8: once discover_skills has returned, every get_skill, list_skills,
\* get_skills_metadata_prompt and lookup-tool call leaves loaded_skills as it
\* is (no name added or removed, no indexed Skill changed) and the loader
\* Ready, and a query repeated right after itself returns what it returned.
C8_QueriesKeepIndex ==
    [][pc = "Ready" =>
           /\ loaded_skills' = loaded_skills
           /\ skills' = skills
           /\ pc' = "Ready"
           /\ (result'.op = result.op /\ result'.arg = result.arg) => result' = result]_vars

\* a lookup of an indexed name has returned, and the index is still the one
\* the discovery left
C8_Witness ==
    /\ pc = "Ready"
    /\ result.op = "execute" /\ result.arg = "x" /\ result.success
    /\ Len(loaded_skills) = 2
    /\ loaded_skills = discover_skills(skills_dir, docs, <<>>).index

\* --------------------------------- the claims on the Reference Rewriter

\* path.is_absolute()
IsAbsolute(p) == p.abs

\* whether the existing path p lies inside directory dir
Under(p, dir) ==
    LET a == Resolve(p).at
        d == Resolve(dir).at
    IN  Len(a) >= Len(d) /\ SubSeq(a, 1, Len(d)) = d

\* C5: every path _process_skill_paths writes into the content is an
\* absolute path to an existing file or directory under the skill's
\* directory, for every skills_dir, a relative one like "./skills" included.
C5_WritesAbsolute ==
    passes >= 1 =>
        \A p \in written : IsAbsolute(p) /\ Exists(p) /\ Under(p, skill_dir)

RECURSIVE Scan(_, _, _)
\* the matches of pattern k re.sub finds in s from position i on, each with
\* the position it starts at
Scan(k, s, i) ==
    IF i > Len(s) THEN {}
    ELSE LET m == MatchAt(k, s, i)
         IN  IF m.ok THEN {[at |-> i, m |-> m]} \cup Scan(k, s, m.end)
             ELSE Scan(k, s, i + 1)

\* the matched references among the matches all whose target does not exist
Unresolved(k, all, dir) == {r \in all : ~Exists(AbsPath(k, r.m, dir))}

\* text t holds the pieces w from the position that lies n pieces before its end
HoldsBeforeEnd(t, w, n) ==
    /\ Len(t) >= n + Len(w)
    /\ SubSeq(t, Len(t) - n - Len(w) + 1, Len(t) - n) = w

\* pattern k, applied to text in, leaves text out: each of its references whose
\* target does not exist stands in out as written, followed by what the
\* substitution makes of the text behind it, and out is in when none resolves
LeavesUnresolved(k, in, out, dir) ==
    LET all == Scan(k, in, 1)
        un == Unresolved(k, all, dir)
    IN  /\ \A r \in un :
               HoldsBeforeEnd(out, Slice(in, r.at, r.m.end), Len(Sub(k, in, r.m.end, dir)))
        /\ un = all => out = in

C10_Idempotent ==
    passes >= 2 => processed = previous

\* ------------------------------------------ the claims on the two tiers

\* the (name, description) pairs of an index, in its order
Pairs(index) ==
    [i \in 1..Len(index) |-> [name |-> index[i].v.name, description |-> index[i].v.description]]

\* the summary line of a (name, description) pair
PairLine(pair) ==
    <<"- ", Backtick, Format(pair.name), Backtick, ": ", Format(pair.description)>>

\* the preamble followed by one line for each pair
PreambleAndLines(pairs) ==
    join("\n", Preamble \o [i \in 1..Len(pairs) |-> PairLine(pairs[i])])

\* an index with the same names and descriptions in the same order, and
\* every other field of every skill replaced
OtherBodies(index) ==
    [i \in 1..Len(index) |->
        [k |-> index[i].k,
         v |-> [index[i].v EXCEPT !.content = <<"another", " ", "body">>,
                                  !.license = "other", !.allowed_tools = "other",
                                  !.metadata = "other"]]]

\* the line separators of a text
Newlines(t) == Cardinality({i \in 1..Len(t) : t[i] = "\n"})

\* C11 as stated: the summary of a Ready catalog is the preamble followed by
\* one line per indexed skill giving its name and description, and a catalog
\* that differs in the skills' bodies alone has the same summary.
C11_Original ==
    (pc = "Ready" /\ result.op = "get_skills_metadata_prompt") =>
        /\ result.value = PreambleAndLines(Pairs(loaded_skills))
        /\ result.value = get_skills_metadata_prompt(OtherBodies(loaded_skills))

\* C11 as amended: the summary of a Ready catalog that indexes no skill is the
\* empty text, without the preamble; the summary of one that indexes a skill
\* is the preamble followed by one line per indexed skill, in the order of the
\* index, giving its name and description; and a catalog that differs in the
\* skills' bodies alone has the same summary.
C11_Amended ==
    (pc = "Ready" /\ result.op = "get_skills_metadata_prompt") =>
        /\ loaded_skills = <<>> => result.value = <<>>
        /\ loaded_skills # <<>> =>
               /\ result.value = PreambleAndLines(Pairs(loaded_skills))
               /\ Newlines(result.value) = Len(Preamble) + Len(loaded_skills) - 1
        /\ result.value = get_skills_metadata_prompt(OtherBodies(loaded_skills))

\* the summary of a catalog of two skills with different bodies has returned
C11_Witness ==
    /\ pc = "Ready"
    /\ result.op = "get_skills_metadata_prompt"
    /\ Len(loaded_skills) = 2
    /\ loaded_skills[1].v.content # loaded_skills[2].v.content
    /\ loaded_skills[1].v.content # <<>>
    /\ Newlines(result.value) = Len(Preamble) + 1

\* C12: after the discovery every skill of the sequence discover_skills
\* returned, which the middleware keeps and lists in the system prompt, is
\* the skill get_skill returns for its name: each listed name is listed once,
\* and the list the middleware formats is the list of the skills the lookup
\* loads for those names, description by description.
C12_TiersAgree ==
    Discovered =>
        /\ \A i \in 1..Len(skills) : get_skill(loaded_skills, skills[i].name) = skills[i]
        /\ \A i \in 1..Len(skills) : \A j \in 1..Len(skills) :
               skills[i].name = skills[j].name => i = j
        /\ format_skills_list(skills, Str(skills_dir))
               = format_skills_list([i \in 1..Len(skills) |->
                                        get_skill(loaded_skills, skills[i].name)],
                                    Str(skills_dir))

=============================================================================
